---- MODULE Spec2Model ----
(***************************************************************************)
(* Model of the App component of Pdf-Image-Adder (src/unnamed/part_000):   *)
(* the four pieces of React state, the two drop handlers, the remove       *)
(* button, the preview clean-up effect, and handleMergePdf with each of    *)
(* its awaits as a separate step.                                          *)
(*                                                                         *)
(* A handler and the render it causes are one action: the state update,    *)
(* the commit, and the clean-up of the effect whose dependency changed.    *)
(***************************************************************************)
EXTENDS Integers, Sequences, FiniteSets, TLC

(* ---------------------------- bounds ----------------------------------- *)
\* previews created in one run of the model (URL.createObjectURL calls)
MaxHandles == 3
\* previews created in one run of a specification that also runs merges
MaxMergeHandles == 2
\* image drop events in one run of the model
MaxImageDrops == 2
\* files in one drop batch
MaxBatch == 2
\* image drop events in one run of a specification that also runs merges
MaxMergeDrops == 1

\* image drop events in one run of the model when the later ones come while
\* a merge is in flight
MaxInFlightDrops == 2

\* multiple: false on the PDF dropzone: at most one accepted file per drop
MaxPdfFiles == 1

(* ---------------------------- values ----------------------------------- *)
\* null as a message (error) and null as a file (pdfFile)
NULL == "null"
NoFile == [name |-> "null"]
\* no link.click() in this step
NoDocument == [name |-> "none"]

\* a media type "family/subtype"
MediaType(family, subtype) == [family |-> family, subtype |-> subtype]
PdfType == MediaType("application", "pdf")
JpegType == MediaType("image", "jpeg")
PngType == MediaType("image", "png")
GifType == MediaType("image", "gif")
TextType == MediaType("text", "plain")

\* the messages passed to setError
ErrInvalidPdf == "Please upload a valid PDF file"
ErrMissing == "Please upload both a PDF and at least one image"
ErrProcessing == "Error processing PDF. Please try again."

\* files a user can drop on the PDF target: two PDFs (1 and 2 pages) and a
\* text file
PdfCandidates ==
    { [name |-> "a.pdf", type |-> PdfType, pages |-> 1],
      [name |-> "b.pdf", type |-> PdfType, pages |-> 2],
      [name |-> "notes.txt", type |-> TextType, pages |-> 0] }

\* files a user can drop on the image target
ImageCandidates ==
    { [type |-> PngType], [type |-> JpegType], [type |-> GifType],
      [type |-> TextType] }

\* all sequences over S of length 0..n
SeqUpTo(S, n) == UNION { [1..k -> S] : k \in 0..n }

VARIABLES
    pdfFile,     \* useState<File | null>
    images,      \* useState<ImageFile[]>: sequence of [type, preview]
    loading,     \* useState(false)
    error,       \* useState<string | null>
    mounted,     \* the component is mounted
    revoked,     \* preview handle -> number of URL.revokeObjectURL calls on it
    runs,        \* handleMergePdf invocations suspended at an await
    download,    \* the document link.click() hands to the browser in this step
    saveUrl,     \* the object URL made in this step: "none", "revoked", "left"
    uncaught,    \* a handleMergePdf promise was rejected
    imageDrops   \* image drop events so far

vars == << pdfFile, images, loading, error, mounted, revoked, runs,
           download, saveUrl, uncaught, imageDrops >>

Init ==
    /\ pdfFile = NoFile
    /\ images = << >>
    /\ loading = FALSE
    /\ error = NULL
    /\ mounted = TRUE
    /\ revoked = << >>
    /\ runs = << >>
    /\ download = NoDocument
    /\ saveUrl = "none"
    /\ uncaught = FALSE
    /\ imageDrops = 0

\* a step that makes no object URL for a merged blob and clicks no link
NoOutput ==
    /\ download' = NoDocument
    /\ saveUrl' = "none"

(* ------------------------- onPdfDrop ----------------------------------- *)
\* variant: any candidate of the batch may be the PDF
IsPdfDropAnyCandidate(acceptedFiles) ==
    \E k \in DOMAIN acceptedFiles : acceptedFiles[k].type = PdfType

IsPdfDrop(acceptedFiles) ==
    Len(acceptedFiles) > 0 /\ acceptedFiles[1].type = PdfType

onPdfDrop(acceptedFiles) ==
    /\ mounted
    /\ IF IsPdfDrop(acceptedFiles)
         THEN /\ pdfFile' = acceptedFiles[1]
              /\ error' = NULL
         ELSE /\ error' = ErrInvalidPdf
              /\ UNCHANGED pdfFile
    /\ NoOutput
    /\ UNCHANGED << images, loading, mounted, revoked, runs, uncaught, imageDrops >>

\* a drop on the PDF dropzone
PdfDrop == \E acceptedFiles \in SeqUpTo(PdfCandidates, MaxPdfFiles) :
               onPdfDrop(acceptedFiles)

\* onPdfDrop called with any batch
PdfDropAny == \E acceptedFiles \in SeqUpTo(PdfCandidates, MaxBatch) :
                  onPdfDrop(acceptedFiles)

(* ---------------------- preview clean-up effect ------------------------ *)
\* URL.revokeObjectURL(h): one more release call on handle h
revokeObjectURL(rev, h) == [rev EXCEPT ![h] = @ + 1]

\* images.forEach(image => URL.revokeObjectURL(image.preview))
RECURSIVE RevokeEach(_, _, _)
RevokeEach(rev, imgs, k) ==
    IF k > Len(imgs) THEN rev
    ELSE RevokeEach(revokeObjectURL(rev, imgs[k].preview), imgs, k + 1)

\* variant: useEffect(..., []), whose clean-up closes over the empty array of
\* the first render
PreviewCleanupFirstRender(rev, prevImages) == RevokeEach(rev, << >>, 1)

\* The effect depends on [images]: when a render commits a new array, React
\* first runs the clean-up returned for the previous array, which closes
\* over that previous array.  The same clean-up runs at unmount.
PreviewCleanup(rev, prevImages) == RevokeEach(rev, prevImages, 1)

(* ------------------------- onImagesDrop -------------------------------- *)
\* file.type.startsWith('image/')
StartsWithImage(type) == type.family = "image"

\* acceptedFiles.filter(...).map(file => Object.assign(file, {preview:
\* URL.createObjectURL(file)})): candidates k.. of the batch, the next new
\* handle being h
RECURSIVE FilterMapFrom(_, _, _)
FilterMapFrom(acceptedFiles, k, h) ==
    IF k > Len(acceptedFiles) THEN << >>
    ELSE IF StartsWithImage(acceptedFiles[k].type)
         THEN << [type |-> acceptedFiles[k].type, preview |-> h] >>
                  \o FilterMapFrom(acceptedFiles, k + 1, h + 1)
         ELSE FilterMapFrom(acceptedFiles, k + 1, h)

ImageFilesOf(acceptedFiles, firstHandle) ==
    FilterMapFrom(acceptedFiles, 1, firstHandle)

\* variant: setImages([...images, ...imageFiles]) with the images of the
\* first render, which useCallback(..., []) would close over
AppendToStaleImages(prevImages, imageFiles) == imageFiles

\* setImages(prevImages => [...prevImages, ...imageFiles])
AppendImages(prevImages, imageFiles) == prevImages \o imageFiles

\* variant: setError(null) only when the filter kept a file
onImagesDropClearIfAny(acceptedFiles) ==
    LET imageFiles == ImageFilesOf(acceptedFiles, Len(revoked) + 1)
        created == revoked \o [k \in 1..Len(imageFiles) |-> 0]
    IN /\ mounted
       /\ imageDrops' = imageDrops + 1
       /\ error' = IF imageFiles = << >> THEN error ELSE NULL
       /\ images' = AppendImages(images, imageFiles)
       /\ revoked' = PreviewCleanup(created, images)
       /\ NoOutput
       /\ UNCHANGED << pdfFile, loading, mounted, runs, uncaught >>

onImagesDrop(acceptedFiles) ==
    LET imageFiles == ImageFilesOf(acceptedFiles, Len(revoked) + 1)
        created == revoked \o [k \in 1..Len(imageFiles) |-> 0]
    IN /\ mounted
       /\ imageDrops' = imageDrops + 1
       /\ error' = NULL
       /\ images' = AppendImages(images, imageFiles)
       /\ revoked' = PreviewCleanup(created, images)
       /\ NoOutput
       /\ UNCHANGED << pdfFile, loading, mounted, runs, uncaught >>

\* an image drop, while at most maxDrops drops happen and at most
\* maxHandles previews get created in all
ImagesDropUpTo(maxHandles, maxDrops) ==
    \E acceptedFiles \in SeqUpTo(ImageCandidates, MaxBatch) :
        /\ imageDrops < maxDrops
        /\ Len(revoked) + Len(ImageFilesOf(acceptedFiles, 1)) <= maxHandles
        /\ onImagesDrop(acceptedFiles)

ImagesDrop == ImagesDropUpTo(MaxHandles, MaxImageDrops)

ImagesDropSmall == ImagesDropUpTo(MaxMergeHandles, MaxMergeDrops)

(* ------------------------- remove button ------------------------------- *)
\* images.filter((_, i) => i !== index), positions counted from 1
RECURSIVE FilterOutIndex(_, _, _)
FilterOutIndex(imgs, index, i) ==
    IF i > Len(imgs) THEN << >>
    ELSE IF i # index
         THEN << imgs[i] >> \o FilterOutIndex(imgs, index, i + 1)
         ELSE FilterOutIndex(imgs, index, i + 1)

\* variant: the position is compared one off
RemoveFilterOffByOne(imgs, index) == FilterOutIndex(imgs, index + 1, 1)

RemoveFilter(imgs, index) == FilterOutIndex(imgs, index, 1)

RemoveClick(index) ==
    /\ mounted
    /\ index \in 1..Len(images)
    /\ images' = RemoveFilter(images, index)
    /\ revoked' = PreviewCleanup(revoked, images)
    /\ NoOutput
    /\ UNCHANGED << pdfFile, loading, error, mounted, runs, uncaught, imageDrops >>

Remove == \E index \in 1..Len(images) : RemoveClick(index)

(* --------------------------- teardown ---------------------------------- *)
Unmount ==
    /\ mounted
    /\ mounted' = FALSE
    /\ revoked' = PreviewCleanup(revoked, images)
    /\ NoOutput
    /\ UNCHANGED << pdfFile, images, loading, error, runs, uncaught, imageDrops >>

(* ------------------------- handleMergePdf ------------------------------ *)
\* A state setter called after the component is gone changes nothing.
SetState(current, value) == IF mounted THEN value ELSE current

\* variant: && written for ||
MergePrecondFailsBoth(pdf, imgs) == pdf = NoFile /\ Len(imgs) = 0

\* !pdfFile || images.length === 0
MergePrecondFails(pdf, imgs) == pdf = NoFile \/ Len(imgs) = 0

\* The part of handleMergePdf before its first await.  The closure reads the
\* pdfFile and images of the render that created it; the invocation keeps
\* them for all its later steps.
NewRun ==
    [pc |-> "readPdf", pdfFile |-> pdfFile, images |-> images, i |-> 0,
     pages |-> << >>, log |-> << >>]

handleMergePdf ==
    IF MergePrecondFails(pdfFile, images)
    THEN /\ error' = SetState(error, ErrMissing)
         /\ NoOutput
         /\ UNCHANGED << pdfFile, images, loading, mounted, revoked, runs,
                         uncaught, imageDrops >>
    ELSE /\ loading' = SetState(loading, TRUE)
         /\ error' = SetState(error, NULL)
         /\ runs' = Append(runs, NewRun)
         /\ NoOutput
         /\ UNCHANGED << pdfFile, images, mounted, revoked, uncaught, imageDrops >>

\* variant: the prop leaves loading out
DisabledIgnoringLoading == pdfFile = NoFile \/ Len(images) = 0

\* disabled={loading || !pdfFile || images.length === 0}
Disabled == loading \/ pdfFile = NoFile \/ Len(images) = 0

\* a click reaches onClick only while the button is not disabled
MergeButtonClick ==
    /\ mounted
    /\ ~Disabled
    /\ handleMergePdf

\* handleMergePdf invoked, while no merge is in flight, by a caller that
\* does not go through the button
MergeCall ==
    /\ mounted
    /\ ~loading
    /\ handleMergePdf

(* ---------------- the awaits of handleMergePdf, one step each ---------- *)
RemoveAt(s, r) == SubSeq(s, 1, r - 1) \o SubSeq(s, r + 1, Len(s))

Step(op, arg) == [op |-> op, arg |-> arg]

\* variant: the file is read through a reference that follows the latest
\* PdfInput, not through the closure
LoadedPagesOfLatest(pdf) ==
    [k \in 1..pdfFile.pages |-> [kind |-> "original", of |-> k]]

\* the pages of the document PDFDocument.load returns
LoadedPages(pdf) == [k \in 1..pdf.pages |-> [kind |-> "original", of |-> k]]

\* variant: setLoading(false) as the last statement of try, not in finally
LoadingAtEndOfTry(outcome, current) ==
    IF outcome = "thrown" THEN current ELSE SetState(current, FALSE)

\* the value of loading once try/catch/finally is over
LoadingAtEnd(outcome, current) == SetState(current, FALSE)

\* variant: catch only logs
ErrorAtEndLogOnly(outcome, current) == current

\* the value of error once try/catch/finally is over
ErrorAtEnd(outcome, current) ==
    IF outcome = "thrown" THEN SetState(current, ErrProcessing) ELSE current

\* did the promise of handleMergePdf reject
RejectsAtEnd(outcome) == FALSE

\* an await throws, or the download section does: catch, then finally
Throw(r) ==
    /\ error' = ErrorAtEnd("thrown", error)
    /\ loading' = LoadingAtEnd("thrown", loading)
    /\ uncaught' = (uncaught \/ RejectsAtEnd("thrown"))
    /\ runs' = RemoveAt(runs, r)

\* the head of "for (const imageFile of images)" with k entries done
LoopHead(run, k) ==
    IF k >= Len(run.images)
    THEN [run EXCEPT !.pc = "save", !.i = k]
    ELSE [run EXCEPT !.pc = "readImg", !.i = k + 1]

\* await pdfFile.arrayBuffer()
ReadPdfDone(r, ok) ==
    /\ runs[r].pc = "readPdf"
    /\ IF ok
       THEN /\ runs' = [runs EXCEPT ![r] =
                          [@ EXCEPT !.pc = "loadPdf",
                                    !.log = Append(@, Step("readPdf", 0))]]
            /\ UNCHANGED << error, loading, uncaught >>
       ELSE Throw(r)
    /\ NoOutput
    /\ UNCHANGED << pdfFile, images, mounted, revoked, imageDrops >>

\* await PDFDocument.load(pdfBytes)
LoadPdfDone(r, ok) ==
    /\ runs[r].pc = "loadPdf"
    /\ IF ok
       THEN /\ runs' = [runs EXCEPT ![r] =
                          LoopHead([@ EXCEPT
                                      !.pages = LoadedPages(runs[r].pdfFile),
                                      !.log = Append(@, Step("loadPdf", 0))],
                                   0)]
            /\ UNCHANGED << error, loading, uncaught >>
       ELSE Throw(r)
    /\ NoOutput
    /\ UNCHANGED << pdfFile, images, mounted, revoked, imageDrops >>

\* variant: the PNG branch is missing
EmbedCallJpegOnly(type) ==
    IF type = JpegType THEN "embedJpg" ELSE "continue"

\* variant: a plain else embeds every other type as PNG
EmbedCallPngAsDefault(type) ==
    IF type = JpegType THEN "embedJpg" ELSE "embedPng"

\* imageFile.type === 'image/jpeg' ... else if 'image/png' ... else continue
EmbedCall(type) ==
    IF type = JpegType THEN "embedJpg"
    ELSE IF type = PngType THEN "embedPng"
    ELSE "continue"

\* await imageFile.arrayBuffer(), then the dispatch on imageFile.type
ReadImgDone(r, ok) ==
    LET run == runs[r]
        logged == [run EXCEPT !.log = Append(@, Step("readImg", run.i))]
    IN /\ run.pc = "readImg"
       /\ IF ok
          THEN /\ runs' = [runs EXCEPT ![r] =
                             IF EmbedCall(run.images[run.i].type) = "continue"
                             THEN LoopHead(logged, run.i)
                             ELSE [logged EXCEPT !.pc =
                                     EmbedCall(run.images[run.i].type)]]
               /\ UNCHANGED << error, loading, uncaught >>
          ELSE Throw(r)
       /\ NoOutput
       /\ UNCHANGED << pdfFile, images, mounted, revoked, imageDrops >>

\* pdfDoc.addPage() and page.drawImage(image, ...)
AddPage(pages, imageFile) ==
    Append(pages, [kind |-> "image", of |-> imageFile.preview])

\* await pdfDoc.embedJpg / embedPng, then addPage and drawImage
EmbedDone(r, ok) ==
    LET run == runs[r]
    IN /\ run.pc \in {"embedJpg", "embedPng"}
       /\ IF ok
          THEN /\ runs' = [runs EXCEPT ![r] =
                             LoopHead([run EXCEPT
                                         !.pages = AddPage(@, run.images[run.i]),
                                         !.log = Append(@, Step(run.pc, run.i))],
                                      run.i)]
               /\ UNCHANGED << error, loading, uncaught >>
          ELSE Throw(r)
       /\ NoOutput
       /\ UNCHANGED << pdfFile, images, mounted, revoked, imageDrops >>

\* what link.click() hands to the browser
Delivered(run) ==
    [pdfFile |-> run.pdfFile, images |-> run.images, pages |-> run.pages,
     log |-> Append(run.log, Step("save", 0))]

\* Lines 84-94.  outcome: "saveRejects" (await pdfDoc.save() throws),
\* "throwsBeforeUrl" (new Blob or createObjectURL throws), "throwsBeforeClick"
\* (createElement, appendChild or click throws), "throwsAfterClick"
\* (removeChild throws), "returns".
DownloadOutcomes ==
    {"saveRejects", "throwsBeforeUrl", "throwsBeforeClick", "throwsAfterClick",
     "returns"}

\* variant: the working set is emptied once the download section returned
SaveDoneResetsImages(r, outcome) ==
    LET run == runs[r]
        urlCreated == outcome \in {"throwsBeforeClick", "throwsAfterClick",
                                   "returns"}
        clicked == outcome \in {"throwsAfterClick", "returns"}
        urlRevoked == outcome = "returns"
    IN /\ run.pc = "save"
       /\ saveUrl' = IF ~urlCreated THEN "none"
                     ELSE IF urlRevoked THEN "revoked" ELSE "left"
       /\ download' = IF clicked THEN Delivered(run) ELSE NoDocument
       /\ IF outcome = "returns"
          THEN /\ loading' = LoadingAtEnd("returned", loading)
               /\ error' = ErrorAtEnd("returned", error)
               /\ uncaught' = (uncaught \/ RejectsAtEnd("returned"))
               /\ runs' = RemoveAt(runs, r)
               /\ images' = SetState(images, << >>)
               /\ revoked' = IF mounted THEN PreviewCleanup(revoked, images)
                             ELSE revoked
          ELSE /\ Throw(r)
               /\ UNCHANGED << images, revoked >>
       /\ UNCHANGED << pdfFile, mounted, imageDrops >>

SaveDone(r, outcome) ==
    LET run == runs[r]
        urlCreated == outcome \in {"throwsBeforeClick", "throwsAfterClick",
                                   "returns"}
        clicked == outcome \in {"throwsAfterClick", "returns"}
        urlRevoked == outcome = "returns"
    IN /\ run.pc = "save"
       /\ saveUrl' = IF ~urlCreated THEN "none"
                     ELSE IF urlRevoked THEN "revoked" ELSE "left"
       /\ download' = IF clicked THEN Delivered(run) ELSE NoDocument
       /\ IF outcome = "returns"
          THEN /\ loading' = LoadingAtEnd("returned", loading)
               /\ error' = ErrorAtEnd("returned", error)
               /\ uncaught' = (uncaught \/ RejectsAtEnd("returned"))
               /\ runs' = RemoveAt(runs, r)
          ELSE Throw(r)
       /\ UNCHANGED << pdfFile, images, mounted, revoked, imageDrops >>

ReadPdf == \E r \in DOMAIN runs, ok \in BOOLEAN : ReadPdfDone(r, ok)
LoadPdf == \E r \in DOMAIN runs, ok \in BOOLEAN : LoadPdfDone(r, ok)
ReadImg == \E r \in DOMAIN runs, ok \in BOOLEAN : ReadImgDone(r, ok)
Embed == \E r \in DOMAIN runs, ok \in BOOLEAN : EmbedDone(r, ok)
Save == \E r \in DOMAIN runs, outcome \in DownloadOutcomes : SaveDone(r, outcome)

Pipeline == ReadPdf \/ LoadPdf \/ ReadImg \/ Embed \/ Save

(* ------------------------- specifications ------------------------------ *)
\* the component as the browser drives it: merges start from the button
Next ==
    \/ PdfDrop
    \/ ImagesDropSmall
    \/ Remove
    \/ MergeButtonClick
    \/ Pipeline
    \/ Unmount

Spec == Init /\ [][Next]_vars

\* the same, with handleMergePdf also invoked directly whenever idle
NextCall == Next \/ MergeCall

SpecCall == Init /\ [][NextCall]_vars

\* every await eventually settles
LiveSpec == Spec /\ WF_vars(Pipeline)

\* the input handlers, called with any batch, and teardown (no merge is
\* triggered)
NextInputs == PdfDropAny \/ ImagesDrop \/ Remove \/ Unmount

SpecInputs == Init /\ [][NextInputs]_vars

\* an image drop that comes while a handleMergePdf invocation is suspended
ImagesDropInFlight ==
    /\ runs # << >>
    /\ ImagesDropUpTo(MaxMergeHandles, MaxInFlightDrops)

\* the mounted component as the browser drives it, with further image drops
\* while a merge is in flight
NextInFlight ==
    \/ PdfDrop
    \/ ImagesDropSmall
    \/ ImagesDropInFlight
    \/ Remove
    \/ MergeButtonClick
    \/ Pipeline

SpecInFlight == Init /\ [][NextInFlight]_vars

(* ======================= claims about the merge ======================== *)

\* C3: at most one merge pipeline is in flight at any time, and while one is
\* in flight busy is true, so a further trigger starts no second pipeline.
C3_OneMergeInFlight ==
    /\ Len(runs) <= 1
    /\ (mounted /\ runs # << >>) => loading

\* a pipeline is suspended in its image loop while both inputs are present
\* and another merge could still be started: only busy disables the trigger
C3_Witness ==
    /\ mounted
    /\ loading
    /\ pdfFile # NoFile
    /\ Len(images) > 0
    /\ Len(runs) = 1
    /\ runs[1].pc = "readImg"

\* C4: every merge attempt that sets busy to true ends, whatever step fails
\* or succeeds, and once no attempt is in flight busy is false and the
\* trigger control is disabled only for a missing input.
C4_BusyEnds ==
    /\ [](mounted => (loading <=> runs # << >>))
    /\ [](mounted /\ runs = << >>
            => (Disabled <=> (pdfFile = NoFile \/ images = << >>)))
    /\ (runs # << >>) ~> (runs = << >>)

\* an attempt failed in its download section, after the URL was made, and
\* the component is idle again
C4_Witness ==
    /\ mounted
    /\ runs = << >>
    /\ ~loading
    /\ download = NoDocument
    /\ saveUrl = "left"
    /\ error = ErrProcessing

\* C5: handleMergePdf invoked with PdfInput unset or with an empty working
\* set sets Error State to the missing-input message, does not set busy,
\* and does no pipeline work (starts no run, creates no URL, delivers
\* nothing).
C5_MissingInputAborts ==
    [][(MergeCall /\ (pdfFile = NoFile \/ images = << >>)) =>
         /\ error' = ErrMissing
         /\ loading' = loading
         /\ runs' = runs
         /\ saveUrl' = "none"
         /\ download' = NoDocument]_vars

\* the abort happened with a PDF present and the working set empty
C5_Witness ==
    /\ error = ErrMissing
    /\ pdfFile # NoFile
    /\ images = << >>
    /\ ~loading

\* the steps a pipeline over imgs completes before it delivers
RECURSIVE ImageSteps(_, _)
ImageSteps(imgs, k) ==
    IF k > Len(imgs) THEN << >>
    ELSE << Step("readImg", k) >>
           \o (IF imgs[k].type = JpegType THEN << Step("embedJpg", k) >>
               ELSE IF imgs[k].type = PngType THEN << Step("embedPng", k) >>
               ELSE << >>)
           \o ImageSteps(imgs, k + 1)

AllSteps(imgs) ==
    << Step("readPdf", 0), Step("loadPdf", 0) >> \o ImageSteps(imgs, 1)
       \o << Step("save", 0) >>

\* an await of run r rejects: the PDF read or parse, an image read or
\* embed, or the serialization
PipelineStepFails(r) ==
    \/ ReadPdfDone(r, FALSE)
    \/ LoadPdfDone(r, FALSE)
    \/ ReadImgDone(r, FALSE)
    \/ EmbedDone(r, FALSE)
    \/ SaveDone(r, "saveRejects")

\* C6: a document is delivered only by a pipeline all of whose steps (PDF
\* read and parse, every image read and embed, serialization) succeeded;
\* when a step fails nothing is delivered, Error State becomes the generic
\* pipeline-failure message, and the failure is caught inside the merge
\* operation.
C6_DeliveryOnlyAfterSuccess ==
    [][/\ download' # NoDocument
            => download'.log = AllSteps(download'.images)
       /\ \A r \in DOMAIN runs :
            PipelineStepFails(r) =>
              /\ download' = NoDocument
              /\ saveUrl' = "none"
              /\ mounted => error' = ErrProcessing
              /\ ~uncaught']_vars

\* a merge failed before any URL was made: nothing delivered, the generic
\* message shown
C6_Witness ==
    /\ mounted
    /\ runs = << >>
    /\ download = NoDocument
    /\ saveUrl = "none"
    /\ ~uncaught
    /\ error = ErrProcessing

\* the images with an embeddable declared type, in the order of the set
Embeddable(imgs) ==
    SelectSeq(imgs, LAMBDA img : img.type \in {JpegType, PngType})

\* C7: a delivered document has the PDF's original pages followed by exactly
\* one page per JPEG or PNG image of the working set the merge was started
\* with, in insertion order.
C7_PagesOfDelivery ==
    download # NoDocument =>
      LET p == download.pdfFile.pages
          emb == Embeddable(download.images)
      IN /\ Len(download.pages) = p + Len(emb)
         /\ \A k \in 1..p :
               download.pages[k] = [kind |-> "original", of |-> k]
         /\ \A k \in 1..Len(emb) :
               download.pages[p + k] = [kind |-> "image", of |-> emb[k].preview]

\* a 1-page PDF merged with a PNG followed by a JPEG gave 3 pages
C7_Witness ==
    /\ download # NoDocument
    /\ download.pdfFile.pages = 1
    /\ Len(download.images) = 2
    /\ download.images[1].type = PngType
    /\ download.images[2].type = JpegType
    /\ Len(download.pages) = 3

\* C12 (as claimed): whenever a merge creates the save URL for the download,
\* that URL is released before the merge ends, whatever the outcome,
\* including when the download trigger fails after the URL was created.
C12_SaveUrlReleased == saveUrl \in {"none", "revoked"}

\* the working set of a run holds only image-family entries that are neither
\* JPEG nor PNG, and its PDF has one page
OnlyUnembeddable(run) ==
    /\ run.pdfFile.pages = 1
    /\ run.images # << >>
    /\ \A k \in DOMAIN run.images :
          /\ run.images[k].type.family = "image"
          /\ run.images[k].type \notin {JpegType, PngType}

\* C13: an image of the working set whose declared type is image-family but
\* neither JPEG nor PNG adds no page and raises no error: a merge of a 1-page
\* PDF with only such images goes from each image read straight to the next
\* loop iteration, and when its steps succeed it delivers the 1-page
\* document, sets no error message (Error State, cleared at the trigger, is
\* empty unless a PDF drop made meanwhile set its own message) and ends with
\* busy false.
C13_UnembeddableImageSkipped ==
    [][\A r \in DOMAIN runs :
         OnlyUnembeddable(runs[r]) =>
           /\ ReadImgDone(r, TRUE) =>
                 /\ runs'[r].pc \in {"readImg", "save"}
                 /\ runs'[r].pages = runs[r].pages
                 /\ error' = error
           /\ SaveDone(r, "returns") =>
                 /\ download'.pages = << [kind |-> "original", of |-> 1] >>
                 /\ saveUrl' = "revoked"
                 /\ error' = error
                 /\ error' \in {NULL, ErrInvalidPdf}
                 /\ mounted => ~loading'
                 /\ ~uncaught']_vars

\* a 1-page PDF merged with a single GIF was delivered as 1 page, with no
\* error and busy false
C13_Witness ==
    /\ mounted
    /\ download # NoDocument
    /\ Len(download.images) = 1
    /\ download.images[1].type = GifType
    /\ Len(download.pages) = 1
    /\ error = NULL
    /\ ~loading
    /\ runs = << >>

\* C15: the merge operation never writes PdfInput or the working set: the
\* precondition abort, the start of a pipeline and every pipeline step,
\* succeeding or failing, leave both as they were, so only the drop and
\* removal handlers change them.
C15_MergeWritesNoInput ==
    [][(MergeCall \/ MergeButtonClick \/ Pipeline) =>
         /\ pdfFile' = pdfFile
         /\ images' = images]_vars

\* a merge delivered its document and both inputs are still the ones it was
\* started with
C15_Witness ==
    /\ mounted
    /\ runs = << >>
    /\ download # NoDocument
    /\ pdfFile = download.pdfFile
    /\ images = download.images
    /\ Len(images) = 2

\* a drop or a removal: a step of the user-interaction handlers (image drops
\* are the steps that count one more drop event)
UserEvent == PdfDrop \/ Remove \/ imageDrops' = imageDrops + 1

\* C16: a merge in flight uses the PdfInput and the working set as they were
\* when it was triggered: the trigger records the current pair, PDF drops,
\* image drops and removals that come at its suspension points leave the
\* recorded pair and the pages built so far alone, and the document it
\* delivers has the pages of the recorded PDF followed by one page per JPEG
\* or PNG of the recorded set.
C16_MergeUsesTriggerSnapshot ==
    [][/\ (MergeButtonClick /\ Len(runs') = Len(runs) + 1) =>
            /\ runs'[Len(runs')].pdfFile = pdfFile
            /\ runs'[Len(runs')].images = images
       /\ UserEvent => runs' = runs
       /\ \A r \in DOMAIN runs :
            (SaveDone(r, "returns") \/ SaveDone(r, "throwsAfterClick")) =>
              LET p == runs[r].pdfFile.pages
                  emb == Embeddable(runs[r].images)
              IN /\ download'.pdfFile = runs[r].pdfFile
                 /\ download'.images = runs[r].images
                 /\ Len(download'.pages) = p + Len(emb)
                 /\ \A k \in 1..p : download'.pages[k].of = k
                 /\ \A k \in 1..Len(emb) :
                       download'.pages[p + k].of = emb[k].preview]_vars

\* a document was delivered after a PDF drop, an image drop and a removal all
\* came during its merge: it has the pages of the PDF and of the image of the
\* trigger, while the current PdfInput and working set are other ones
C16_Witness ==
    /\ download # NoDocument
    /\ pdfFile # download.pdfFile
    /\ imageDrops = 2
    /\ Len(download.images) = 1
    /\ download.images[1].preview = 1
    /\ Len(images) = 1
    /\ images[1].preview = 2
    /\ Len(download.pages) = download.pdfFile.pages + 1

(* ======================= claims about the inputs ======================= *)

\* C1 (as claimed): every ImageInput in the working set has a live, not yet
\* released preview handle; appending a batch or removing one entry never
\* releases the handle of an entry that stays in the set.
C1_PresentPreviewsLive ==
    mounted => \A k \in DOMAIN images : revoked[images[k].preview] = 0

\* C2 (as claimed): over drops, removals and a final teardown, release is
\* called on every allocated preview handle exactly once: never twice or
\* more, and after teardown never zero times.
C2_ReleasedExactlyOnce ==
    /\ \A h \in DOMAIN revoked : revoked[h] <= 1
    /\ ~mounted => \A h \in DOMAIN revoked : revoked[h] = 1

\* C11: after teardown, whatever drops and removals came before, every
\* preview handle ever allocated (for entries removed earlier and for entries
\* still present at teardown) has been released at least once.
C11_NoHandleLeftAfterTeardown ==
    ~mounted => \A h \in DOMAIN revoked : revoked[h] >= 1

\* teardown came after three previews were made in two drops and one entry was
\* removed: two entries were still present
C11_Witness ==
    /\ ~mounted
    /\ imageDrops = 2
    /\ Len(revoked) = 3
    /\ Len(images) = 2

\* the image-family candidates of a batch, in batch order
ImageFamilyOnly(batch) ==
    SelectSeq(batch, LAMBDA f : f.type \in {PngType, JpegType, GifType})

\* C8: a PDF drop whose batch is non-empty and starts with a PDF makes that
\* first candidate the PdfInput and clears Error State; any other PDF drop
\* (empty batch, first candidate not a PDF even if a later one is) leaves
\* PdfInput unchanged and sets Error State to the invalid-PDF message.
C8_PdfDrop ==
    [][\A batch \in SeqUpTo(PdfCandidates, MaxBatch) :
         onPdfDrop(batch) =>
           IF batch # << >> /\ Head(batch).type = PdfType
           THEN pdfFile' = Head(batch) /\ error' = NULL
           ELSE pdfFile' = pdfFile /\ error' = ErrInvalidPdf]_vars

\* an invalid PDF drop happened after a valid one and left the PdfInput
C8_Witness == pdfFile # NoFile /\ error = ErrInvalidPdf

\* C9: after an image drop the working set is the prior set followed by the
\* batch's image-family candidates in batch order: nothing removed or
\* reordered, non-image candidates dropped, duplicates kept.
C9_ImagesDropAppends ==
    [][\A batch \in SeqUpTo(ImageCandidates, MaxBatch) :
         onImagesDrop(batch) =>
           LET kept == ImageFamilyOnly(batch)
           IN /\ Len(images') = Len(images) + Len(kept)
              /\ \A k \in 1..Len(images) : images'[k] = images[k]
              /\ \A k \in 1..Len(kept) :
                    images'[Len(images) + k].type = kept[k].type]_vars

\* two drops back to back built a set of three with a duplicated type
C9_Witness ==
    /\ imageDrops = 2
    /\ Len(images) = 3
    /\ \E j, k \in DOMAIN images : j < k /\ images[j].type = images[k].type
    /\ \A k \in DOMAIN images : images[k].preview = k

\* C14: immediately after any image drop event Error State is empty, whatever
\* it was before and even when the batch holds no image-family candidate (the
\* working set is then unchanged).
C14_ImagesDropClearsError ==
    [][\A batch \in SeqUpTo(ImageCandidates, MaxBatch) :
         onImagesDrop(batch) =>
           /\ error' = NULL
           /\ ImageFamilyOnly(batch) = << >> => images' = images]_vars

\* after a valid PDF drop and image drops that kept no file, Error State is
\* empty and the working set is still empty
C14_Witness ==
    /\ imageDrops = 2
    /\ images = << >>
    /\ revoked = << >>
    /\ pdfFile # NoFile
    /\ error = NULL

\* C10: removing the entry at index i from a set of size n leaves the n-1
\* other entries in their original relative order, and the removal calls
\* release on the removed entry's preview handle.
C10_RemoveKeepsOrder ==
    [][\A index \in DOMAIN images :
         RemoveClick(index) =>
           /\ Len(images') = Len(images) - 1
           /\ \A j \in 1..(index - 1) : images'[j] = images[j]
           /\ \A j \in index..(Len(images) - 1) : images'[j] = images[j + 1]
           /\ revoked'[images[index].preview]
                = revoked[images[index].preview] + 1]_vars

\* the middle entry of three was removed and its handle released
C10_Witness ==
    /\ Len(revoked) = 3
    /\ Len(images) = 2
    /\ images[1].preview = 1
    /\ images[2].preview = 3
    /\ revoked[2] >= 1
====
